---- MODULE Spec2Model ----
(***************************************************************************)
(* Credential store of magnit-vms-cli (internal/keyring/store.go).         *)
(*                                                                         *)
(* Go strings are sequences of one-character strings, so that             *)
(* strings.TrimSpace and strings.ToLower are computed.  The OS keyring and *)
(* the credentials file are the persistent state; every backend call may   *)
(* fail, which an operation receives as the set F of its failing calls.    *)
(*                                                                         *)
(* The authenticator (package auth) is present by its tests only; Login    *)
(* and the two token extractors follow section 4.2 of the specification.   *)
(***************************************************************************)
EXTENDS Integers, Sequences, FiniteSets, TLC

VARIABLES env, krUser, krPass, file, last, login, jar, token

vars == <<env, krUser, krPass, file, last, login, jar, token>>

(***************************************************************************)
(* Bounds                                                                  *)
(***************************************************************************)
\* number of distinct well-formed credentials a caller saves
MaxCreds == 2

\* number of cookies in the jar of the HTTP client
MaxCookies == 2

(***************************************************************************)
(* Strings                                                                 *)
(***************************************************************************)
Upper == <<"A", "B", "C", "D", "E", "F", "G", "H", "I", "J", "K", "L", "M",
           "N", "O", "P", "Q", "R", "S", "T", "U", "V", "W", "X", "Y", "Z">>
Lower == <<"a", "b", "c", "d", "e", "f", "g", "h", "i", "j", "k", "l", "m",
           "n", "o", "p", "q", "r", "s", "t", "u", "v", "w", "x", "y", "z">>

IsSpace(c) == c \in {" ", "\t", "\n", "\r"}

ToLowerChar(c) ==
    IF \E i \in 1..Len(Upper) : Upper[i] = c
    THEN Lower[CHOOSE i \in 1..Len(Upper) : Upper[i] = c]
    ELSE c

\* strings.ToLower
ToLower(s) == [i \in 1..Len(s) |-> ToLowerChar(s[i])]

RECURSIVE TrimLeft(_)
TrimLeft(s) ==
    IF s = <<>> THEN <<>>
    ELSE IF IsSpace(Head(s)) THEN TrimLeft(Tail(s)) ELSE s

RECURSIVE TrimRight(_)
TrimRight(s) ==
    IF s = <<>> THEN <<>>
    ELSE IF IsSpace(s[Len(s)]) THEN TrimRight(SubSeq(s, 1, Len(s) - 1)) ELSE s

\* strings.TrimSpace
TrimSpace(s) == TrimRight(TrimLeft(s))

\* n copies of the character c
Rep(c, n) == [i \in 1..n |-> c]

(***************************************************************************)
(* Constants of store.go                                                   *)
(***************************************************************************)
userKey == "username"
passKey == "password"
StoreAuto == <<"a", "u", "t", "o">>
StoreKeyring == <<"k", "e", "y", "r", "i", "n", "g">>
StoreFile == <<"f", "i", "l", "e">>
defaultCredentialBackend == StoreAuto

\* os.WriteFile(path, data, 0o600): the permission bits of a created file
FilePerm == 384

(***************************************************************************)
(* Errors: text is the message, part by part; chain is what errors.Is      *)
(* walks (the error itself, then what it wraps with %w).                   *)
(***************************************************************************)
NoError == [text |-> <<>>, chain |-> <<>>]
NotCalled == [text |-> <<"(not called)">>, chain |-> <<>>]

\* errors.New(msg), and the errors of the libraries
NewError(msg) == [text |-> <<msg>>, chain |-> <<msg>>]

ErrCredentialsNotFound == NewError("credentials not found")
zkErrNotFound == NewError("secret not found in keyring")
zkErrOther(key) == NewError("keyring unavailable: " \o key)
osErrNotExist == NewError("file does not exist")
osErrOther(call) == NewError(call \o ": input/output error")
ConfigPathError == NewError("config path: $HOME is not defined")
YamlError == NewError("yaml: cannot unmarshal")

\* fmt.Errorf(prefix + ": %w", e)
Wrap(prefix, e) == [text |-> <<prefix>> \o e.text, chain |-> <<prefix>> \o e.chain]

\* Aggregate, leaving the keyring's error out of the message
Aggregate_FileOnly(op, k, f) ==
    [text |-> <<op \o " credentials failed", "file:">> \o f.text,
     chain |-> <<op \o " credentials failed">> \o f.chain]

\* fmt.Errorf(op + " credentials failed (keyring: %v, file: %w)", k, f)
Aggregate(op, k, f) ==
    [text |-> <<op \o " credentials failed", "keyring:">> \o k.text \o <<"file:">> \o f.text,
     chain |-> <<op \o " credentials failed">> \o f.chain]

\* errors.Is(e, target)
Is(e, target) == \E i \in 1..Len(e.chain) : e.chain[i] = target.chain[1]

\* the message of e contains the message of c
Mentions(e, c) ==
    \E i \in 0..(Len(e.text) - Len(c.text)) :
        SubSeq(e.text, i + 1, i + Len(c.text)) = c.text

(***************************************************************************)
(* Store-kind resolution                                                   *)
(***************************************************************************)
\* normalizeStore, without strings.ToLower
normalizeStore_NoLower(store) ==
    LET value == TrimSpace(store)
    IN IF value = <<>> THEN defaultCredentialBackend ELSE value

normalizeStore(store) ==
    LET value == ToLower(TrimSpace(store))
    IN IF value = <<>> THEN defaultCredentialBackend ELSE value

\* ValidateCredentialStore, accepting every value
ValidateCredentialStore_AcceptAll(store) == NoError

ValidateCredentialStore(store) ==
    IF normalizeStore(store) \in {StoreAuto, StoreKeyring, StoreFile}
    THEN NoError
    ELSE NewError("invalid credential store (allowed: auto, keyring, file)")

\* resolveStore, the argument taking precedence over the environment
resolveStore_ArgumentFirst(e, preferredStore) ==
    LET trimmed == TrimSpace(preferredStore)
        chosen == IF trimmed = <<>> THEN e ELSE trimmed
        store == normalizeStore(chosen)
        err == ValidateCredentialStore(store)
    IN IF err # NoError THEN [store |-> <<>>, err |-> err]
       ELSE [store |-> store, err |-> NoError]

\* [store, err]; e is the value of MAGNIT_CREDENTIAL_STORE
resolveStore(e, preferredStore) ==
    LET trimmed == TrimSpace(e)
        chosen == IF trimmed = <<>> THEN preferredStore ELSE trimmed
        store == normalizeStore(chosen)
        err == ValidateCredentialStore(store)
    IN IF err # NoError THEN [store |-> <<>>, err |-> err]
       ELSE [store |-> store, err |-> NoError]

(***************************************************************************)
(* yaml.v3 on the Credentials struct: a document is a sequence of          *)
(* key/scalar entries.  A plain scalar loses surrounding white space when  *)
(* parsed, a quoted one is kept verbatim; the encoder quotes a string that *)
(* is empty or starts or ends with white space.                            *)
(***************************************************************************)
ZeroCredentials == [Username |-> <<>>, Password |-> <<>>]

NeedsQuote(s) == s = <<>> \/ IsSpace(s[1]) \/ IsSpace(s[Len(s)])

Scalar(key, s) ==
    [key |-> key, style |-> IF NeedsQuote(s) THEN "quoted" ELSE "plain", text |-> s]

\* yaml.Marshal(&creds)
Marshal(creds) == <<Scalar("username", creds.Username), Scalar("password", creds.Password)>>

Decode(entry) == IF entry.style = "plain" THEN TrimSpace(entry.text) ELSE entry.text

Field(data, key) ==
    IF \E i \in 1..Len(data) : data[i].key = key
    THEN Decode(data[CHOOSE i \in 1..Len(data) :
                        /\ data[i].key = key
                        /\ \A j \in 1..(i - 1) : data[j].key # key])
    ELSE <<>>

\* yaml.Unmarshal(data, &creds): [creds, err]
Unmarshal(data) ==
    IF \E i \in 1..Len(data) : data[i].style = "invalid"
    THEN [creds |-> ZeroCredentials, err |-> YamlError]
    ELSE [creds |-> [Username |-> Field(data, "username"),
                     Password |-> Field(data, "password")],
          err |-> NoError]

(***************************************************************************)
(* Backends.  A world w is [krUser, krPass, file]; a backend function      *)
(* returns the world it leaves, its error and the calls it made.           *)
(***************************************************************************)
NoEntry == [set |-> FALSE, val |-> <<>>]
Entry(v) == [set |-> TRUE, val |-> v]
NoFile == [exists |-> FALSE, mode |-> 0, data |-> <<>>]

Call(fn, arg, res) == [fn |-> fn, arg |-> arg, res |-> res]

saveToKeyring(w, creds, F) ==
    IF "setUser" \in F
    THEN [w |-> w,
          err |-> Wrap("save username to keyring", zkErrOther(userKey)),
          calls |-> <<Call("zk.Set", userKey, "err")>>]
    ELSE IF "setPass" \in F
    THEN [w |-> [w EXCEPT !.krUser = Entry(creds.Username)],
          err |-> Wrap("save password to keyring", zkErrOther(passKey)),
          calls |-> <<Call("zk.Set", userKey, "ok"), Call("zk.Set", passKey, "err")>>]
    ELSE [w |-> [w EXCEPT !.krUser = Entry(creds.Username),
                          !.krPass = Entry(creds.Password)],
          err |-> NoError,
          calls |-> <<Call("zk.Set", userKey, "ok"), Call("zk.Set", passKey, "ok")>>]

loadFromKeyring(w, F) ==
    IF "getUser" \in F
    THEN [creds |-> ZeroCredentials,
          err |-> Wrap("read username from keyring", zkErrOther(userKey)),
          calls |-> <<Call("zk.Get", userKey, "err")>>]
    ELSE IF ~w.krUser.set
    THEN [creds |-> ZeroCredentials,
          err |-> ErrCredentialsNotFound,
          calls |-> <<Call("zk.Get", userKey, "notfound")>>]
    ELSE IF "getPass" \in F
    THEN [creds |-> ZeroCredentials,
          err |-> Wrap("read password from keyring", zkErrOther(passKey)),
          calls |-> <<Call("zk.Get", userKey, "ok"), Call("zk.Get", passKey, "err")>>]
    ELSE IF ~w.krPass.set
    THEN [creds |-> ZeroCredentials,
          err |-> ErrCredentialsNotFound,
          calls |-> <<Call("zk.Get", userKey, "ok"), Call("zk.Get", passKey, "notfound")>>]
    ELSE [creds |-> [Username |-> w.krUser.val, Password |-> w.krPass.val],
          err |-> NoError,
          calls |-> <<Call("zk.Get", userKey, "ok"), Call("zk.Get", passKey, "ok")>>]

\* zk.Delete(serviceName, key) on the entry e: [entry, err, res]
zkDelete(e, key, fails) ==
    IF fails THEN [entry |-> e, err |-> zkErrOther(key), res |-> "err"]
    ELSE IF ~e.set THEN [entry |-> e, err |-> zkErrNotFound, res |-> "notfound"]
    ELSE [entry |-> NoEntry, err |-> NoError, res |-> "ok"]

\* deleteFromKeyring, reporting zk.ErrNotFound like any other error
deleteFromKeyring_Strict(w, F) ==
    LET u == zkDelete(w.krUser, userKey, "delUser" \in F)
        p == zkDelete(w.krPass, passKey, "delPass" \in F)
    IN [w |-> [w EXCEPT !.krUser = u.entry, !.krPass = p.entry],
        err |-> IF u.err # NoError THEN Wrap("delete username from keyring", u.err)
                ELSE IF p.err # NoError THEN Wrap("delete password from keyring", p.err)
                ELSE NoError,
        calls |-> <<Call("zk.Delete", userKey, u.res), Call("zk.Delete", passKey, p.res)>>]

deleteFromKeyring(w, F) ==
    LET u == zkDelete(w.krUser, userKey, "delUser" \in F)
        p == zkDelete(w.krPass, passKey, "delPass" \in F)
        userErr == u.err
        passErr == p.err
    IN [w |-> [w EXCEPT !.krUser = u.entry, !.krPass = p.entry],
        err |-> IF userErr # NoError /\ ~Is(userErr, zkErrNotFound)
                THEN Wrap("delete username from keyring", userErr)
                ELSE IF passErr # NoError /\ ~Is(passErr, zkErrNotFound)
                THEN Wrap("delete password from keyring", passErr)
                ELSE NoError,
        calls |-> <<Call("zk.Delete", userKey, u.res), Call("zk.Delete", passKey, p.res)>>]

\* credentialsFilePath(): the error of config.ConfigPath()
credentialsFilePath(F) == IF "path" \in F THEN ConfigPathError ELSE NoError

\* os.WriteFile(path, data, perm) on the file f: O_WRONLY|O_CREATE|O_TRUNC,
\* perm applies only to a file the call creates
osWriteFile(f, data, perm, F) ==
    IF "open" \in F
    THEN [file |-> f, err |-> osErrOther("open"), res |-> "err"]
    ELSE LET mode == IF f.exists THEN f.mode ELSE perm
         IN IF "write" \in F
            THEN [file |-> [exists |-> TRUE, mode |-> mode, data |-> <<>>],
                  err |-> osErrOther("write"), res |-> "err"]
            ELSE [file |-> [exists |-> TRUE, mode |-> mode, data |-> data],
                  err |-> NoError, res |-> "ok"]

saveToFile(w, creds, F) ==
    IF credentialsFilePath(F) # NoError
    THEN [w |-> w,
          err |-> Wrap("resolve credentials path", credentialsFilePath(F)),
          calls |-> <<Call("config.ConfigPath", "", "err")>>]
    ELSE IF "mkdir" \in F
    THEN [w |-> w,
          err |-> Wrap("create credentials dir", osErrOther("mkdir")),
          calls |-> <<Call("config.ConfigPath", "", "ok"), Call("os.MkdirAll", "", "err")>>]
    ELSE LET wr == osWriteFile(w.file, Marshal(creds), FilePerm, F)
         IN [w |-> [w EXCEPT !.file = wr.file],
             err |-> IF wr.err # NoError THEN Wrap("write credentials file", wr.err)
                     ELSE NoError,
             calls |-> <<Call("config.ConfigPath", "", "ok"), Call("os.MkdirAll", "", "ok"),
                         Call("os.WriteFile", "", wr.res)>>]

\* os.ReadFile(path) on the file f: [data, err, res]
osReadFile(f, F) ==
    IF "read" \in F THEN [data |-> <<>>, err |-> osErrOther("read"), res |-> "err"]
    ELSE IF ~f.exists THEN [data |-> <<>>, err |-> osErrNotExist, res |-> "notfound"]
    ELSE [data |-> f.data, err |-> NoError, res |-> "ok"]

loadFromFile(w, F) ==
    IF credentialsFilePath(F) # NoError
    THEN [creds |-> ZeroCredentials,
          err |-> Wrap("resolve credentials path", credentialsFilePath(F)),
          calls |-> <<Call("config.ConfigPath", "", "err")>>]
    ELSE LET rd == osReadFile(w.file, F)
             parsed == Unmarshal(rd.data)
             calls == <<Call("config.ConfigPath", "", "ok"), Call("os.ReadFile", "", rd.res)>>
         IN IF rd.err # NoError
            THEN [creds |-> ZeroCredentials,
                  err |-> IF Is(rd.err, osErrNotExist) THEN ErrCredentialsNotFound
                          ELSE Wrap("read credentials file", rd.err),
                  calls |-> calls]
            ELSE IF parsed.err # NoError
            THEN [creds |-> ZeroCredentials,
                  err |-> Wrap("parse credentials file", parsed.err),
                  calls |-> calls]
            ELSE IF TrimSpace(parsed.creds.Username) = <<>> \/ parsed.creds.Password = <<>>
            THEN [creds |-> ZeroCredentials,
                  err |-> NewError("credentials file is missing required fields"),
                  calls |-> calls]
            ELSE [creds |-> parsed.creds, err |-> NoError, calls |-> calls]

\* os.Remove(path) on the file f: [file, err, res]
osRemove(f, F) ==
    IF "remove" \in F THEN [file |-> f, err |-> osErrOther("remove"), res |-> "err"]
    ELSE IF ~f.exists THEN [file |-> f, err |-> osErrNotExist, res |-> "notfound"]
    ELSE [file |-> NoFile, err |-> NoError, res |-> "ok"]

\* deleteFromFile, taking every error of os.Remove for absence
deleteFromFile_Swallow(w, F) ==
    IF credentialsFilePath(F) # NoError
    THEN [w |-> w,
          err |-> Wrap("resolve credentials path", credentialsFilePath(F)),
          calls |-> <<Call("config.ConfigPath", "", "err")>>]
    ELSE LET rm == osRemove(w.file, F)
         IN [w |-> [w EXCEPT !.file = rm.file],
             err |-> NoError,
             calls |-> <<Call("config.ConfigPath", "", "ok"), Call("os.Remove", "", rm.res)>>]

deleteFromFile(w, F) ==
    IF credentialsFilePath(F) # NoError
    THEN [w |-> w,
          err |-> Wrap("resolve credentials path", credentialsFilePath(F)),
          calls |-> <<Call("config.ConfigPath", "", "err")>>]
    ELSE LET rm == osRemove(w.file, F)
         IN [w |-> [w EXCEPT !.file = rm.file],
             err |-> IF rm.err = NoError \/ Is(rm.err, osErrNotExist) THEN NoError
                     ELSE Wrap("delete credentials file", rm.err),
             calls |-> <<Call("config.ConfigPath", "", "ok"), Call("os.Remove", "", rm.res)>>]

(***************************************************************************)
(* The three operations.  e is MAGNIT_CREDENTIAL_STORE, F the failing      *)
(* backend calls.  branch is the return the operation left by: a failed    *)
(* check ("username", "password", "resolve") or a case of the switch       *)
(* ("keyring", "file", "auto", "default").  keyringErr and fileErr are the *)
(* errors of the two backend functions, NotCalled for one the operation    *)
(* did not call.                                                           *)
(***************************************************************************)
Result(w, branch, err, out, keyringErr, fileErr, calls) ==
    [w |-> w, branch |-> branch, err |-> err, out |-> out,
     keyringErr |-> keyringErr, fileErr |-> fileErr, calls |-> calls]

Early(w, branch, err) == Result(w, branch, err, ZeroCredentials, NotCalled, NotCalled, <<>>)

Unsupported(w) == Early(w, "default", NewError("unsupported credential store"))

\* autoSaveError, returning nil although the file save failed too
autoSaveError_Swallow(keyringErr, fileErr) == NoError

\* the error of Save in Auto, from the errors of the two saves
autoSaveError(keyringErr, fileErr) ==
    IF keyringErr = NoError THEN NoError
    ELSE IF fileErr # NoError THEN Aggregate("save", keyringErr, fileErr)
    ELSE NoError

\* SaveCredentialsWithStore, without the check of the password
SaveCredentialsWithStore_NoPasswordCheck(w, e, creds, preferredStore, F) ==
    IF creds.Username = <<>> THEN Early(w, "username", NewError("username is required"))
    ELSE LET r == resolveStore(e, preferredStore)
             k == saveToKeyring(w, creds, F)
             f == saveToFile(w, creds, F)
             kf == saveToFile(k.w, creds, F)
         IN IF r.err # NoError THEN Early(w, "resolve", r.err)
            ELSE IF r.store = StoreKeyring
            THEN Result(k.w, "keyring", k.err, ZeroCredentials, k.err, NotCalled, k.calls)
            ELSE IF r.store = StoreFile
            THEN Result(f.w, "file", f.err, ZeroCredentials, NotCalled, f.err, f.calls)
            ELSE IF k.err = NoError
            THEN Result(k.w, "auto", NoError, ZeroCredentials, k.err, NotCalled, k.calls)
            ELSE Result(kf.w, "auto", autoSaveError(k.err, kf.err), ZeroCredentials,
                        k.err, kf.err, k.calls \o kf.calls)

SaveCredentialsWithStore(w, e, creds, preferredStore, F) ==
    IF creds.Username = <<>> THEN Early(w, "username", NewError("username is required"))
    ELSE IF creds.Password = <<>>
    THEN Early(w, "password", NewError("password is required"))
    ELSE LET r == resolveStore(e, preferredStore)
             store == r.store
         IN IF r.err # NoError THEN Early(w, "resolve", r.err)
            ELSE IF store = StoreKeyring
            THEN LET k == saveToKeyring(w, creds, F)
                 IN Result(k.w, "keyring", k.err, ZeroCredentials, k.err, NotCalled, k.calls)
            ELSE IF store = StoreFile
            THEN LET f == saveToFile(w, creds, F)
                 IN Result(f.w, "file", f.err, ZeroCredentials, NotCalled, f.err, f.calls)
            ELSE IF store = StoreAuto
            THEN LET k == saveToKeyring(w, creds, F)
                     f == saveToFile(k.w, creds, F)
                 IN IF k.err = NoError
                    THEN Result(k.w, "auto", autoSaveError(k.err, NotCalled),
                                ZeroCredentials, k.err, NotCalled, k.calls)
                    ELSE Result(f.w, "auto", autoSaveError(k.err, f.err),
                                ZeroCredentials, k.err, f.err, k.calls \o f.calls)
            ELSE Unsupported(w)

\* autoLoadError, reporting not-found as soon as one backend does
autoLoadError_EitherNotFound(err, fileErr) ==
    IF Is(err, ErrCredentialsNotFound) \/ Is(fileErr, ErrCredentialsNotFound)
    THEN ErrCredentialsNotFound
    ELSE Aggregate("load", err, fileErr)

\* the error of Load in Auto when both loads failed
autoLoadError(err, fileErr) ==
    IF Is(err, ErrCredentialsNotFound) /\ Is(fileErr, ErrCredentialsNotFound)
    THEN ErrCredentialsNotFound
    ELSE IF Is(err, ErrCredentialsNotFound) THEN fileErr
    ELSE IF Is(fileErr, ErrCredentialsNotFound) THEN err
    ELSE Aggregate("load", err, fileErr)

\* LoadCredentialsWithStore, Auto trying the file before the keyring
LoadCredentialsWithStore_FileFirst(w, e, preferredStore, F) ==
    LET r == resolveStore(e, preferredStore)
        k == loadFromKeyring(w, F)
        f == loadFromFile(w, F)
    IN IF r.err # NoError THEN Early(w, "resolve", r.err)
       ELSE IF r.store = StoreKeyring
       THEN Result(w, "keyring", k.err, k.creds, k.err, NotCalled, k.calls)
       ELSE IF r.store = StoreFile
       THEN Result(w, "file", f.err, f.creds, NotCalled, f.err, f.calls)
       ELSE IF f.err = NoError
       THEN Result(w, "auto", NoError, f.creds, NotCalled, f.err, f.calls)
       ELSE IF k.err = NoError
       THEN Result(w, "auto", NoError, k.creds, k.err, f.err, f.calls \o k.calls)
       ELSE Result(w, "auto", autoLoadError(k.err, f.err), ZeroCredentials,
                   k.err, f.err, f.calls \o k.calls)

LoadCredentialsWithStore(w, e, preferredStore, F) ==
    LET r == resolveStore(e, preferredStore)
        store == r.store
    IN IF r.err # NoError THEN Early(w, "resolve", r.err)
       ELSE IF store = StoreKeyring
       THEN LET k == loadFromKeyring(w, F)
            IN Result(w, "keyring", k.err, k.creds, k.err, NotCalled, k.calls)
       ELSE IF store = StoreFile
       THEN LET f == loadFromFile(w, F)
            IN Result(w, "file", f.err, f.creds, NotCalled, f.err, f.calls)
       ELSE IF store = StoreAuto
       THEN LET k == loadFromKeyring(w, F)
                f == loadFromFile(w, F)
            IN IF k.err = NoError
               THEN Result(w, "auto", NoError, k.creds, k.err, NotCalled, k.calls)
               ELSE IF f.err = NoError
               THEN Result(w, "auto", NoError, f.creds, k.err, f.err, k.calls \o f.calls)
               ELSE Result(w, "auto", autoLoadError(k.err, f.err), ZeroCredentials,
                           k.err, f.err, k.calls \o f.calls)
       ELSE Unsupported(w)

\* autoDeleteError, failing as soon as one deletion failed
autoDeleteError_Either(keyringErr, fileErr) ==
    IF keyringErr # NoError \/ fileErr # NoError
    THEN Aggregate("delete", keyringErr, fileErr)
    ELSE NoError

\* the error of Delete in Auto, from the errors of the two deletions
autoDeleteError(keyringErr, fileErr) ==
    IF keyringErr # NoError /\ fileErr # NoError
    THEN Aggregate("delete", keyringErr, fileErr)
    ELSE NoError

\* DeleteCredentialsWithStore, the keyring kind deleting the file as well
DeleteCredentialsWithStore_KeyringAndFile(w, e, preferredStore, F) ==
    LET r == resolveStore(e, preferredStore)
        k == deleteFromKeyring(w, F)
        f == deleteFromFile(w, F)
        kf == deleteFromFile(k.w, F)
    IN IF r.err # NoError THEN Early(w, "resolve", r.err)
       ELSE IF r.store = StoreKeyring
       THEN Result(kf.w, "keyring", k.err, ZeroCredentials, k.err, NotCalled, k.calls)
       ELSE IF r.store = StoreFile
       THEN Result(f.w, "file", f.err, ZeroCredentials, NotCalled, f.err, f.calls)
       ELSE Result(kf.w, "auto", autoDeleteError(k.err, kf.err), ZeroCredentials,
                   k.err, kf.err, k.calls \o kf.calls)

DeleteCredentialsWithStore(w, e, preferredStore, F) ==
    LET r == resolveStore(e, preferredStore)
        store == r.store
    IN IF r.err # NoError THEN Early(w, "resolve", r.err)
       ELSE IF store = StoreKeyring
       THEN LET k == deleteFromKeyring(w, F)
            IN Result(k.w, "keyring", k.err, ZeroCredentials, k.err, NotCalled, k.calls)
       ELSE IF store = StoreFile
       THEN LET f == deleteFromFile(w, F)
            IN Result(f.w, "file", f.err, ZeroCredentials, NotCalled, f.err, f.calls)
       ELSE IF store = StoreAuto
       THEN LET k == deleteFromKeyring(w, F)
                f == deleteFromFile(k.w, F)
            IN Result(f.w, "auto", autoDeleteError(k.err, f.err), ZeroCredentials,
                      k.err, f.err, k.calls \o f.calls)
       ELSE Unsupported(w)

(***************************************************************************)
(* Authenticator: the classification of the login response and the two     *)
(* token extractors.  A path is a sequence of characters, a cookie is      *)
(* [name, path, value], a jar holds one cookie for a name and a path.      *)
(***************************************************************************)
InvalidMarker == "<span class=\"red11\">Invalid username / password</span>"
FormMarker == "password_login"

\* the markers, in the order they are looked for, and what each one means
Markers_FormFirst ==
    <<[marker |-> FormMarker, class |-> "InteractiveAuthRequired"],
      [marker |-> InvalidMarker, class |-> "InvalidCredentials"]>>

Markers ==
    <<[marker |-> InvalidMarker, class |-> "InvalidCredentials"],
      [marker |-> FormMarker, class |-> "InteractiveAuthRequired"]>>

\* classifyLogin, looking for the first marker only
classifyLogin_FirstMarkerOnly(body) ==
    IF Markers[1].marker \in body THEN Markers[1].class ELSE "none"

\* the outcome of a login response body, given the fragments it contains:
\* the class of the first marker found, "none" without a marker
classifyLogin(body) ==
    LET found == {i \in DOMAIN Markers : Markers[i].marker \in body}
    IN IF found = {} THEN "none"
       ELSE Markers[CHOOSE i \in found : \A j \in found : i <= j].class

InteractiveHint == NewError("interactive SSO/MFA")

loginError(class) ==
    IF class = "InvalidCredentials" THEN NewError("invalid username or password")
    ELSE IF class = "InteractiveAuthRequired"
    THEN Wrap("session not established", InteractiveHint)
    ELSE IF class = "TransportOrServerError" THEN NewError("request failed")
    ELSE NoError

AccessTokenName == "production" \o "access_token"
XSRFTokenName == "X-XSRF-TOKEN"

\* "/wand2/api" and "/wand/app", where the two applications are mounted
AccessMount == <<"/", "w", "a", "n", "d", "2", "/", "a", "p", "i">>
XSRFMount == <<"/", "w", "a", "n", "d", "/", "a", "p", "p">>

IsPrefix(p, q) == Len(p) <= Len(q) /\ SubSeq(q, 1, Len(p)) = p

\* the cookies of the jar j with the name n whose Path is a prefix of mount
matching(j, n, mount) == {c \in j : c.name = n /\ IsPrefix(c.path, mount)}

\* mostSpecific, taking the shortest Path
mostSpecific_Shortest(C) == CHOOSE c \in C : \A d \in C : Len(c.path) <= Len(d.path)

\* the cookie of C with the longest Path
mostSpecific(C) == CHOOSE c \in C : \A d \in C : Len(d.path) <= Len(c.path)

\* the character written %xy
Unescape(x, y) ==
    IF <<x, y>> = <<"2", "B">> THEN "+"
    ELSE IF <<x, y>> = <<"2", "F">> THEN "/"
    ELSE IF <<x, y>> = <<"2", "2">> THEN "\""
    ELSE "?"

\* url.QueryUnescape on the values used here
RECURSIVE URLDecode(_)
URLDecode(s) ==
    IF s = <<>> THEN <<>>
    ELSE IF s[1] = "%" /\ Len(s) >= 3
    THEN <<Unescape(s[2], s[3])>> \o URLDecode(SubSeq(s, 4, Len(s)))
    ELSE <<s[1]>> \o URLDecode(Tail(s))

\* one layer of surrounding quotes removed
Unquote(s) ==
    IF Len(s) >= 2 /\ s[1] = "\"" /\ s[Len(s)] = "\"" THEN SubSeq(s, 2, Len(s) - 1) ELSE s

DecodeXSRF(value) == Unquote(URLDecode(value))

\* [out, err]
ExtractAccessToken(j) ==
    LET C == matching(j, AccessTokenName, AccessMount)
    IN IF C = {} THEN [out |-> <<>>, err |-> NewError("access token cookie not found")]
       ELSE [out |-> mostSpecific(C).value, err |-> NoError]

ExtractXSRFToken(j) ==
    LET C == matching(j, XSRFTokenName, XSRFMount)
    IN IF C = {} THEN [out |-> <<>>, err |-> NewError("xsrf token cookie not found")]
       ELSE [out |-> DecodeXSRF(mostSpecific(C).value), err |-> NoError]

(***************************************************************************)
(* Inputs                                                                  *)
(***************************************************************************)
Invalid == <<"i", "n", "v", "a", "l", "i", "d", "-", "s", "t", "o", "r", "e">>

\* values of MAGNIT_CREDENTIAL_STORE: "", " ", "AUTO", "Keyring", " FILE\n",
\* "bogus"
EnvValues ==
    {<<>>, <<" ">>, <<"A", "U", "T", "O">>,
     <<"K", "e", "y", "r", "i", "n", "g">>,
     <<" ", "F", "I", "L", "E", "\n">>,
     <<"b", "o", "g", "u", "s">>}

\* preferredStore arguments: "", "auto", "KEYRING ", "file", "invalid-store"
PrefValues == {<<>>, StoreAuto, <<"K", "E", "Y", "R", "I", "N", "G", " ">>, StoreFile, Invalid}

\* the preferredStore arguments of the callers: SaveCredentials passes "",
\* the CLI a store name
StorePrefs == {<<>>, StoreKeyring, StoreFile}

\* credentials with both fields non-empty; the last has a username of white
\* space only and a password that ends with a space
ValidCreds ==
    {[Username |-> Rep("u", i), Password |-> Rep("p", i)] : i \in 1..MaxCreds}
        \cup {[Username |-> <<" ">>, Password |-> <<"s", " ">>]}

InvalidCreds ==
    {[Username |-> <<>>, Password |-> <<"p">>],
     [Username |-> <<"u">>, Password |-> <<>>],
     ZeroCredentials}

\* modes of a file found on disk: 0600, and 0644, the mode of a file created
\* by an editor or a restore under umask 022
FoundModes == {FilePerm, 420}

\* contents of a credentials file this program did not write: not YAML, and
\* a document without a password
JunkDoc == <<[key |-> "{", style |-> "invalid", text |-> <<>>]>>
IncompleteDoc == <<Scalar("username", <<"u">>)>>

\* the credentials file found at start: none, or one left by something else
FoundFiles ==
    {NoFile} \cup [exists : {TRUE}, mode : FoundModes,
                   data : {JunkDoc, IncompleteDoc}]

\* the backend calls that can fail, by backend function (the first failing
\* call of a function ends it, except in deleteFromKeyring)
KeyringSaveFaults == {{}, {"setUser"}, {"setPass"}}
FileSaveFaults == {{}, {"path"}, {"mkdir"}, {"open"}, {"write"}}
KeyringLoadFaults == {{}, {"getUser"}, {"getPass"}}
FileLoadFaults == {{}, {"path"}, {"read"}}
KeyringDeleteFaults == SUBSET {"delUser", "delPass"}
FileDeleteFaults == {{}, {"path"}, {"remove"}}

(***************************************************************************)
(* State machine                                                           *)
(***************************************************************************)
World == [krUser |-> krUser, krPass |-> krPass, file |-> file]

\* the backends that hold something in the world w
Held(w) ==
    {b \in {"keyring"} : w.krUser.set \/ w.krPass.set} \cup {b \in {"file"} : w.file.exists}

\* the backends whose state differs between the worlds w and v
Touched(w, v) ==
    {b \in {"keyring"} : w.krUser # v.krUser \/ w.krPass # v.krPass}
        \cup {b \in {"file"} : w.file # v.file}

\* the record of an operation: its arguments, what it returned, the calls
\* it made, what the backends held before it and which of them it changed
Op(name, creds, pref, r) ==
    [op |-> name, creds |-> creds, pref |-> pref, branch |-> r.branch, err |-> r.err,
     out |-> r.out, keyringErr |-> r.keyringErr, fileErr |-> r.fileErr,
     calls |-> r.calls, held |-> Held(World), touched |-> Touched(World, r.w)]

NoOp ==
    [op |-> "none", creds |-> ZeroCredentials, pref |-> <<>>, branch |-> "none",
     err |-> NoError, out |-> ZeroCredentials, keyringErr |-> NotCalled,
     fileErr |-> NotCalled, calls |-> <<>>, held |-> {}, touched |-> {}]

\* no Login yet
LoginIdle ==
    [state |-> "Start", responded |-> FALSE, body |-> {}, class |-> "none",
     err |-> NoError, currentUserCalls |-> 0]

\* no extraction since the jar last changed
NoToken == [fn |-> "none", out |-> <<>>, err |-> NoError]

Start ==
    /\ krUser = NoEntry
    /\ krPass = NoEntry
    /\ file \in FoundFiles
    /\ last = NoOp
    /\ login = LoginIdle
    /\ jar = {}
    /\ token = NoToken

Apply(name, creds, pref, r) ==
    /\ krUser' = r.w.krUser
    /\ krPass' = r.w.krPass
    /\ file' = r.w.file
    /\ last' = Op(name, creds, pref, r)
    /\ UNCHANGED <<env, login, jar, token>>

\* the faults Fs of a backend, for an operation that reaches the backend
Faults(pref, backend, Fs) ==
    IF resolveStore(env, pref).store \in {backend, StoreAuto} THEN Fs ELSE {{}}

SaveOp(creds, pref, F) ==
    Apply("Save", creds, pref, SaveCredentialsWithStore(World, env, creds, pref, F))

LoadOp(pref, F) ==
    Apply("Load", ZeroCredentials, pref, LoadCredentialsWithStore(World, env, pref, F))

DeleteOp(pref, F) ==
    Apply("Delete", ZeroCredentials, pref, DeleteCredentialsWithStore(World, env, pref, F))

\* Spec: the three operations on the backends, which can fail, with the
\* environment variable unset
Init == env = <<>> /\ Start

Save ==
    \E creds \in ValidCreds, pref \in StorePrefs :
        \E kf \in Faults(pref, StoreKeyring, KeyringSaveFaults),
           ff \in Faults(pref, StoreFile, FileSaveFaults) :
            SaveOp(creds, pref, kf \cup ff)

Load ==
    \E pref \in StorePrefs :
        \E kf \in Faults(pref, StoreKeyring, KeyringLoadFaults),
           ff \in Faults(pref, StoreFile, FileLoadFaults) :
            LoadOp(pref, kf \cup ff)

Delete ==
    \E pref \in StorePrefs :
        \E kf \in Faults(pref, StoreKeyring, KeyringDeleteFaults),
           ff \in Faults(pref, StoreFile, FileDeleteFaults) :
            DeleteOp(pref, kf \cup ff)

Next == Save \/ Load \/ Delete

Spec == Init /\ [][Next]_vars

\* SpecResolve: the three operations under every value of the environment
\* variable and of the argument, with backends that do not fail
InitResolve == env \in EnvValues /\ Start

ResolveSave ==
    \E creds \in ValidCreds \cup InvalidCreds, pref \in PrefValues :
        SaveOp(creds, pref, {})

ResolveLoad == \E pref \in PrefValues : LoadOp(pref, {})

ResolveDelete == \E pref \in PrefValues : DeleteOp(pref, {})

NextResolve == ResolveSave \/ ResolveLoad \/ ResolveDelete

SpecResolve == InitResolve /\ [][NextResolve]_vars

\* SpecValidate: SpecResolve, and ValidateCredentialStore called on raw
\* values
RawValues == EnvValues \cup PrefValues \cup {StoreKeyring}

Validate ==
    \E raw \in RawValues :
        /\ last' = [NoOp EXCEPT !.op = "Validate", !.pref = raw, !.branch = "validate",
                                !.err = ValidateCredentialStore(raw),
                                !.held = Held(World)]
        /\ UNCHANGED <<env, krUser, krPass, file, login, jar, token>>

NextValidate == ResolveSave \/ ResolveLoad \/ ResolveDelete \/ Validate

SpecValidate == InitResolve /\ [][NextValidate]_vars

\* SpecAuth: one Login after another against a server that answers
\* anything, cookies arriving in the jar, and the two extractors
Bodies == SUBSET {InvalidMarker, FormMarker}

CookieNames == {AccessTokenName, XSRFTokenName, "JSESSIONID"}

\* "/", "/wand", "/wand2", "/other"
CookiePaths ==
    {<<"/">>, <<"/", "w", "a", "n", "d">>, <<"/", "w", "a", "n", "d", "2">>,
     <<"/", "o", "t", "h", "e", "r">>}

\* abc, and "t%2Bn%2F1" with its quotes
CookieValues ==
    {<<"a", "b", "c">>, <<"\"", "t", "%", "2", "B", "n", "%", "2", "F", "1", "\"">>}

Cookies == [name : CookieNames, path : CookiePaths, value : CookieValues]

StoreIdle == UNCHANGED <<env, krUser, krPass, file, last>>

\* step 1: the form is submitted and the response, if any, is read
LoginSubmit ==
    /\ login.state = "Start"
    /\ \/ login' = [login EXCEPT !.state = "Failed", !.class = "TransportOrServerError",
                                 !.err = loginError("TransportOrServerError")]
       \/ \E body \in Bodies :
              login' = [login EXCEPT !.state = "FormSubmitted", !.responded = TRUE,
                                     !.body = body]
    /\ UNCHANGED <<jar, token>> /\ StoreIdle

\* step 2: the body is searched for the two markers
LoginInspect ==
    /\ login.state = "FormSubmitted"
    /\ LET class == classifyLogin(login.body)
       IN login' = IF class = "none"
                   THEN [login EXCEPT !.state = "SessionCheckPending"]
                   ELSE [login EXCEPT !.state = "Failed", !.class = class,
                                      !.err = loginError(class)]
    /\ UNCHANGED <<jar, token>> /\ StoreIdle

\* step 3: the "current user" endpoint is called
LoginVerify ==
    /\ login.state = "SessionCheckPending"
    /\ \E ok \in BOOLEAN :
           login' = [login EXCEPT
                        !.currentUserCalls = @ + 1,
                        !.state = IF ok THEN "Success" ELSE "Failed",
                        !.class = IF ok THEN "Success" ELSE "TransportOrServerError",
                        !.err = IF ok THEN NoError ELSE loginError("TransportOrServerError")]
    /\ UNCHANGED <<jar, token>> /\ StoreIdle

\* Login has returned; the next call starts
LoginAgain ==
    /\ login.state \in {"Success", "Failed"}
    /\ login' = LoginIdle
    /\ UNCHANGED <<jar, token>> /\ StoreIdle

\* jar.SetCookies: a cookie replaces the one of the same name and path
SetCookie ==
    \E c \in Cookies :
        LET kept == {d \in jar : d.name # c.name \/ d.path # c.path}
        IN /\ Cardinality(kept) < MaxCookies
           /\ jar' = kept \cup {c}
           /\ token' = NoToken
           /\ UNCHANGED login /\ StoreIdle

ExtractAccess ==
    /\ token' = [fn |-> "ExtractAccessToken", out |-> ExtractAccessToken(jar).out,
                 err |-> ExtractAccessToken(jar).err]
    /\ UNCHANGED <<login, jar>> /\ StoreIdle

ExtractXSRF ==
    /\ token' = [fn |-> "ExtractXSRFToken", out |-> ExtractXSRFToken(jar).out,
                 err |-> ExtractXSRFToken(jar).err]
    /\ UNCHANGED <<login, jar>> /\ StoreIdle

InitAuth == env = <<>> /\ Start /\ file = NoFile

NextAuth ==
    \/ LoginSubmit \/ LoginInspect \/ LoginVerify \/ LoginAgain
    \/ SetCookie \/ ExtractAccess \/ ExtractXSRF

SpecAuth == InitAuth /\ [][NextAuth]_vars

(***************************************************************************)
(* Vocabulary of the properties                                            *)
(***************************************************************************)
KeyringCalls == {"zk.Set", "zk.Get", "zk.Delete"}
FileCalls == {"config.ConfigPath", "os.MkdirAll", "os.WriteFile", "os.ReadFile", "os.Remove"}

\* the calls of the operation l to the functions fns
CallsTo(l, fns) == {i \in 1..Len(l.calls) : l.calls[i].fn \in fns}

\* the calls of the operation l that failed for a reason other than absence
FailedCalls(l) == {i \in 1..Len(l.calls) : l.calls[i].res = "err"}

\* e is, or wraps, the not-found condition
ReportsNotFound(e) == \E i \in 1..Len(e.chain) : e.chain[i] = "credentials not found"

Kinds == {StoreAuto, StoreKeyring, StoreFile}

BranchOf(kind) ==
    IF kind = StoreKeyring THEN "keyring" ELSE IF kind = StoreFile THEN "file" ELSE "auto"

\* the backends a branch works on
Scope(branch) ==
    IF branch = "auto" THEN {"keyring", "file"}
    ELSE IF branch \in {"keyring", "file"} THEN {branch} ELSE {}

\* the last operation got as far as resolving the store
Resolving ==
    \/ last.op \in {"Load", "Delete"}
    \/ last.op = "Save" /\ last.creds \in ValidCreds

\* C1: a Save to the keyring or to the file that returned nil is followed by
\* a Load of the same kind, none of whose backend calls fails, that returns
\* the saved credentials unchanged and no error.
C1_RoundTrip ==
    [][(/\ last.op = "Save" /\ last.err = NoError
        /\ last.branch \in {"keyring", "file"}
        /\ last'.op = "Load" /\ last'.branch = last.branch
        /\ FailedCalls(last') = {})
       => (last'.err = NoError /\ last'.out = last.creds)]_vars

\* C2: a Load that returns without error returns the argument of one Save.
\* Every Save argument pairs a username with its own password (ValidCreds),
\* so a pair outside ValidCreds mixes two Saves.
C2_ReplacedWholesale ==
    (last.op = "Load" /\ last.err = NoError) => last.out \in ValidCreds

\* C3: after a Save whose file save succeeded (kind file, or Auto falling
\* back), the credentials file has mode 0600.
C3_FileMode ==
    (last.op = "Save" /\ last.fileErr = NoError) => (file.exists /\ file.mode = FilePerm)

\* C4: when the environment variable, trimmed, names a store in any letter
\* case, the operation runs against that store whatever the argument; the
\* argument decides only when the variable is empty after trimming, and
\* Auto is used when both are empty.
C4_EnvOverride ==
    Resolving =>
        LET e == ToLower(TrimSpace(env))
            p == ToLower(TrimSpace(last.pref))
        IN /\ e \in Kinds => last.branch = BranchOf(e)
           /\ (e # <<>> /\ e \notin Kinds) => last.branch = "resolve"
           /\ (e = <<>> /\ p \in Kinds) => last.branch = BranchOf(p)
           /\ (e = <<>> /\ p = <<>>) => last.branch = "auto"
           /\ (e = <<>> /\ p # <<>> /\ p \notin Kinds) => last.branch = "resolve"
           /\ last.branch = "keyring" => CallsTo(last, FileCalls) = {}
           /\ last.branch = "file" => CallsTo(last, KeyringCalls) = {}

\* an operation ran against the file although the argument named the keyring
C4_Witness ==
    /\ ToLower(TrimSpace(env)) = StoreFile /\ env # StoreFile
    /\ last.op = "Save" /\ last.creds \in ValidCreds
    /\ ToLower(TrimSpace(last.pref)) = StoreKeyring
    /\ last.branch = "file" /\ "file" \in last.touched

\* C5: Save in Auto tries the keyring first and the file only when the
\* keyring save failed, leaves the file alone when the keyring save
\* succeeded, returns nil exactly when one of the two saves succeeded, and
\* otherwise returns one error whose message carries both causes.
C5_AutoSave ==
    (last.op = "Save" /\ last.branch = "auto") =>
        /\ last.keyringErr # NotCalled
        /\ Len(last.calls) >= 1 /\ last.calls[1].fn = "zk.Set"
        /\ \A i \in CallsTo(last, FileCalls), j \in CallsTo(last, KeyringCalls) : j < i
        /\ last.keyringErr = NoError <=> CallsTo(last, KeyringCalls) \cap FailedCalls(last) = {}
        /\ last.fileErr # NotCalled <=> last.keyringErr # NoError
        /\ last.keyringErr = NoError =>
               (CallsTo(last, FileCalls) = {} /\ "file" \notin last.touched)
        /\ last.err = NoError <=> (last.keyringErr = NoError \/ last.fileErr = NoError)
        /\ last.err # NoError =>
               (Mentions(last.err, last.keyringErr) /\ Mentions(last.err, last.fileErr))

\* both saves of a Save in Auto failed
C5_Witness ==
    /\ last.op = "Save" /\ last.branch = "auto"
    /\ last.keyringErr \notin {NoError, NotCalled}
    /\ last.fileErr \notin {NoError, NotCalled}
    /\ last.err # NoError

\* C6: when both loads of a Load in Auto fail: both not-found gives exactly
\* ErrCredentialsNotFound; exactly one not-found gives the other backend's
\* error, which is not a not-found; neither gives one error whose message
\* names both causes.  Load in Auto reports not-found only when both do.
C6_AutoLoadErrors ==
    (last.op = "Load" /\ last.branch = "auto" /\ last.err # NoError) =>
        LET kn == ReportsNotFound(last.keyringErr)
            fn == ReportsNotFound(last.fileErr)
        IN /\ last.keyringErr \notin {NoError, NotCalled}
           /\ last.fileErr \notin {NoError, NotCalled}
           /\ (kn /\ fn) => last.err = ErrCredentialsNotFound
           /\ (kn /\ ~fn) => (last.err = last.fileErr /\ ~ReportsNotFound(last.err))
           /\ (~kn /\ fn) => (last.err = last.keyringErr /\ ~ReportsNotFound(last.err))
           /\ (~kn /\ ~fn) =>
                  /\ Mentions(last.err, last.keyringErr)
                  /\ Mentions(last.err, last.fileErr)
                  /\ last.err \notin {last.keyringErr, last.fileErr}
           /\ ReportsNotFound(last.err) => (kn /\ fn)

\* the keyring reported not-found and the file another error
C6_Witness ==
    /\ last.op = "Load" /\ last.branch = "auto"
    /\ ReportsNotFound(last.keyringErr)
    /\ last.fileErr \notin {NoError, NotCalled} /\ ~ReportsNotFound(last.fileErr)
    /\ last.err = last.fileErr

\* the required fields of the backend b that are missing although b holds
\* something
Incomplete(b) ==
    IF b = "keyring" THEN krUser.set # krPass.set
    ELSE /\ file.exists
         /\ Unmarshal(file.data).err = NoError
         /\ \/ Unmarshal(file.data).creds.Username = <<>>
            \/ Unmarshal(file.data).creds.Password = <<>>

\* C7: a Load from the keyring or from the file fails with not-found only
\* when that backend holds nothing, and fails with an error that is not
\* not-found when the backend holds something but a required field is
\* missing.
C7_AbsentOrIncomplete ==
    (last.op = "Load" /\ last.branch \in {"keyring", "file"}) =>
        /\ ReportsNotFound(last.err) => last.branch \notin last.held
        /\ Incomplete(last.branch) => (last.err # NoError /\ ~ReportsNotFound(last.err))

\* C8: a Delete on a store that holds nothing changes nothing and, when no
\* backend call fails for a reason other than absence, returns nil; and a
\* Delete right after a Delete of the same kind that returned nil returns
\* nil under the same condition.
C8_DeleteAbsent ==
    /\ []((/\ last.op = "Delete" /\ Scope(last.branch) # {}
           /\ Scope(last.branch) \cap last.held = {})
          => (last.touched = {} /\ (FailedCalls(last) = {} => last.err = NoError)))
    /\ [][(/\ last.op = "Delete" /\ last.err = NoError
           /\ last'.op = "Delete" /\ last'.branch = last.branch
           /\ FailedCalls(last') = {})
          => last'.err = NoError]_vars

\* a Delete in Auto found both backends empty
C8_Witness ==
    /\ last.op = "Delete" /\ last.branch = "auto" /\ last.held = {}
    /\ Len(last.calls) = 4 /\ \A i \in 1..4 : last.calls[i].res \in {"ok", "notfound"}
    /\ last.calls[1].res = "notfound" /\ last.calls[4].res = "notfound"
    /\ last.err = NoError

\* C9: Delete in Auto deletes both keyring entries and then the file,
\* whatever the earlier deletions returned, and returns an error exactly
\* when both the keyring deletion and the file deletion failed for a reason
\* other than absence; the message of that error names both causes.
C9_AutoDelete ==
    (last.op = "Delete" /\ last.branch = "auto") =>
        LET kf == CallsTo(last, KeyringCalls) \cap FailedCalls(last) # {}
            ff == CallsTo(last, FileCalls) \cap FailedCalls(last) # {}
        IN /\ last.keyringErr # NotCalled /\ last.fileErr # NotCalled
           /\ Len(last.calls) >= 3
           /\ last.calls[1].fn = "zk.Delete" /\ last.calls[1].arg = userKey
           /\ last.calls[2].fn = "zk.Delete" /\ last.calls[2].arg = passKey
           /\ last.calls[3].fn = "config.ConfigPath"
           /\ last.calls[3].res = "ok" =>
                  (Len(last.calls) = 4 /\ last.calls[4].fn = "os.Remove")
           /\ last.keyringErr # NoError <=> kf
           /\ last.fileErr # NoError <=> ff
           /\ last.err # NoError <=> (kf /\ ff)
           /\ last.err # NoError =>
                  (Mentions(last.err, last.keyringErr) /\ Mentions(last.err, last.fileErr))

\* the first keyring entry could not be deleted, the second and the file were
\* deleted all the same
C9_Witness ==
    /\ last.op = "Delete" /\ last.branch = "auto"
    /\ Len(last.calls) = 4
    /\ last.calls[1].res = "err" /\ last.calls[2].res = "ok" /\ last.calls[4].res = "ok"
    /\ last.keyringErr # NoError /\ last.err = NoError

\* C10: the resolved value (the environment variable if non-empty after
\* trimming, otherwise the argument), trimmed and lower-cased, is validated:
\* if it is none of "", auto, keyring, file the operation returns the
\* validation error and makes no backend call; otherwise it takes the case
\* of that kind; the default case of the switch is never taken.
C10_Validated ==
    Resolving =>
        LET raw == IF TrimSpace(env) # <<>> THEN env ELSE last.pref
            kind == ToLower(TrimSpace(raw))
        IN /\ last.branch # "default"
           /\ kind \in Kinds \cup {<<>>} => last.branch = BranchOf(kind)
           /\ kind \notin Kinds \cup {<<>>} =>
                  /\ last.branch = "resolve"
                  /\ last.err.text # <<>>
                  /\ last.err.text[1] = "invalid credential store (allowed: auto, keyring, file)"
                  /\ last.calls = <<>> /\ last.touched = {}
                  /\ last.keyringErr = NotCalled /\ last.fileErr = NotCalled

\* a Delete with an invalid argument failed validation while the keyring held
\* credentials
C10_Witness ==
    /\ last.op = "Delete" /\ last.pref = Invalid /\ TrimSpace(env) = <<>>
    /\ last.branch = "resolve" /\ last.err # NoError
    /\ krUser.set /\ krPass.set

\* C11: a Save whose username or password is empty returns the error of
\* that check, whatever the environment variable and the argument (an
\* invalid store name included), makes no backend call and leaves the
\* keyring entries and the credentials file as they were.
C11_SaveValidatesFirst ==
    (last.op = "Save" /\ (last.creds.Username = <<>> \/ last.creds.Password = <<>>)) =>
        /\ last.err # NoError
        /\ last.err.text =
               IF last.creds.Username = <<>> THEN <<"username is required">>
               ELSE <<"password is required">>
        /\ last.branch = IF last.creds.Username = <<>> THEN "username" ELSE "password"
        /\ last.calls = <<>> /\ last.touched = {}
        /\ last.keyringErr = NotCalled /\ last.fileErr = NotCalled

\* a Save with an empty password was refused while the keyring held
\* credentials and the environment variable named the file
C11_Witness ==
    /\ last.op = "Save" /\ last.creds.Username # <<>> /\ last.creds.Password = <<>>
    /\ ToLower(TrimSpace(env)) = StoreFile
    /\ last.err # NoError /\ last.touched = {}
    /\ file.exists

\* C12: ValidateCredentialStore accepts a raw value exactly when, trimmed
\* and lower-cased, it is empty, "auto", "keyring" or "file" (so "", "AUTO",
\* "auto", "keyring" and "file" are accepted), and rejects any other value,
\* such as "invalid-store", with the error that names the three allowed
\* values.
C12_ValidateCredentialStore ==
    last.op = "Validate" =>
        LET v == ToLower(TrimSpace(last.pref))
        IN /\ last.err = NoError <=> v \in {<<>>, StoreAuto, StoreKeyring, StoreFile}
           /\ last.pref \in {<<>>, <<"A", "U", "T", "O">>, StoreAuto, StoreKeyring, StoreFile}
                  => last.err = NoError
           /\ last.pref = Invalid => last.err # NoError
           /\ last.err # NoError =>
                  last.err.text = <<"invalid credential store (allowed: auto, keyring, file)">>

\* "AUTO" was accepted
C12_Witness ==
    /\ last.op = "Validate" /\ last.pref = <<"A", "U", "T", "O">>
    /\ last.err = NoError

\* C14: Load in Auto reads the keyring first; when the keyring load succeeds
\* it returns the keyring's credentials without reading the file, whatever
\* the file holds; it returns the file's credentials only when the keyring
\* load failed and the file load succeeded.
C14_AutoLoadKeyringFirst ==
    (last.op = "Load" /\ last.branch = "auto") =>
        /\ Len(last.calls) >= 1 /\ last.calls[1].fn = "zk.Get"
        /\ (krUser.set /\ krPass.set /\ FailedCalls(last) = {}) => last.keyringErr = NoError
        /\ last.keyringErr = NoError =>
               /\ last.err = NoError
               /\ last.out = [Username |-> krUser.val, Password |-> krPass.val]
               /\ last.fileErr = NotCalled
               /\ CallsTo(last, FileCalls) = {}
        /\ last.fileErr # NotCalled => last.keyringErr # NoError
        /\ (last.err = NoError /\ last.keyringErr # NoError) =>
               /\ last.fileErr = NoError
               /\ file.exists
               /\ last.out = Unmarshal(file.data).creds

\* the keyring's credentials were returned although the file held other,
\* loadable credentials
C14_Witness ==
    /\ last.op = "Load" /\ last.branch = "auto" /\ last.keyringErr = NoError
    /\ file.exists /\ Unmarshal(file.data).err = NoError
    /\ Unmarshal(file.data).creds \in ValidCreds
    /\ TrimSpace(Unmarshal(file.data).creds.Username) # <<>>
    /\ Unmarshal(file.data).creds # last.out
    /\ last.out = [Username |-> krUser.val, Password |-> krPass.val]

\* the backend b holds credentials that a load from b returns
Loadable(b) ==
    IF b = "keyring" THEN krUser.set /\ krPass.set
    ELSE /\ file.exists
         /\ Unmarshal(file.data).err = NoError
         /\ TrimSpace(Unmarshal(file.data).creds.Username) # <<>>
         /\ Unmarshal(file.data).creds.Password # <<>>

\* the backend a Save in Auto that returned nil wrote the credentials to, and
\* the other one
Landed(l) == IF l.keyringErr = NoError THEN "keyring" ELSE "file"
NotLanded(l) == IF l.keyringErr = NoError THEN "file" ELSE "keyring"

\* a Save in Auto that returned nil, directly followed by a Load in Auto that
\* returned without error
SaveThenLoad ==
    /\ last.op = "Save" /\ last.branch = "auto" /\ last.err = NoError
    /\ last'.op = "Load" /\ last'.branch = "auto" /\ last'.err = NoError

\* C17, as claimed: after a Save of c in Auto that returned nil, with no Save
\* or Delete since, a Load in Auto that returns without error returns c.
C17_ReadYourWrites == [][SaveThenLoad => last'.out = last.creds]_vars

\* C17, amended: the same, provided the backend the Save did not write c to
\* holds no complete credentials after the Save.  A Load changes neither
\* backend, so the Loads that follow see what the first one saw.
C17_ReadYourWritesOtherEmpty ==
    /\ [][(SaveThenLoad /\ ~Loadable(NotLanded(last))) => last'.out = last.creds]_vars
    /\ [][last'.op = "Load" => UNCHANGED <<krUser, krPass, file>>]_vars

\* a Load in Auto returned the credentials of the file beside a keyring that
\* holds only the username of the same Save
C17_Witness ==
    /\ last.op = "Load" /\ last.branch = "auto" /\ last.err = NoError
    /\ last.keyringErr # NoError /\ last.fileErr = NoError
    /\ krUser.set /\ ~krPass.set /\ krUser.val = last.out.Username

\* a Delete that returned nil, directly followed by a Load of the same kind
DeleteThenLoad ==
    /\ last.op = "Delete" /\ last.err = NoError /\ Scope(last.branch) # {}
    /\ last'.op = "Load" /\ last'.branch = last.branch

DeletedAll(l) ==
    /\ l.op = "Delete" /\ l.err = NoError /\ Scope(l.branch) # {}
    /\ l.keyringErr \in {NoError, NotCalled}
    /\ l.fileErr \in {NoError, NotCalled}

C19_Isolation ==
    /\ last.branch = "keyring" =>
           /\ CallsTo(last, FileCalls) = {}
           /\ last.fileErr = NotCalled
           /\ "file" \notin last.touched
    /\ last.branch = "file" =>
           /\ CallsTo(last, KeyringCalls) = {}
           /\ last.keyringErr = NotCalled
           /\ "keyring" \notin last.touched
    /\ last.op = "Load" => last.touched = {}
    /\ last.touched \subseteq Scope(last.branch)

\* a Delete of the keyring kind emptied the keyring and left the file there
C19_Witness ==
    /\ last.op = "Delete" /\ last.branch = "keyring" /\ last.err = NoError
    /\ last.held = {"keyring", "file"} /\ last.touched = {"keyring"}
    /\ file.exists /\ ~krUser.set /\ ~krPass.set

\* the login response holds one of the two markers
Marked(l) == l.responded /\ l.body \cap {InvalidMarker, FormMarker} # {}

\* C13: a Login whose login response holds the invalid-credentials marker or
\* the login-form marker goes from the response to Failed, with an
\* InvalidCredentials error, respectively an error mentioning interactive
\* SSO/MFA, and calls the "current user" endpoint zero times; the endpoint is
\* called only after a response with neither marker, once, and Login succeeds
\* only after that call answered without an error.
C13_ShortCircuit ==
    /\ [](/\ Marked(login) =>
                 /\ login.currentUserCalls = 0
                 /\ login.state \in {"FormSubmitted", "Failed"}
          /\ (Marked(login) /\ login.state = "Failed") =>
                 /\ login.err # NoError
                 /\ InvalidMarker \in login.body => login.class = "InvalidCredentials"
                 /\ InvalidMarker \notin login.body => Mentions(login.err, InteractiveHint)
          /\ login.currentUserCalls > 0 =>
                 /\ login.responded /\ login.body \cap {InvalidMarker, FormMarker} = {}
                 /\ login.currentUserCalls = 1
          /\ login.state = "Success" =>
                 /\ login.currentUserCalls = 1 /\ login.err = NoError
                 /\ login.class = "Success")
    /\ [][/\ (Marked(login) /\ login.state = "FormSubmitted" /\ login' # login) =>
                 login'.state = "Failed"
          /\ login'.currentUserCalls > login.currentUserCalls =>
                 /\ login.state = "SessionCheckPending"
                 /\ ~Marked(login) /\ login.responded
          /\ (login'.state = "Success" /\ login.state # "Success") =>
                 login'.currentUserCalls = login.currentUserCalls + 1]_vars

\* a Login stopped by the login form without a "current user" call
C13_Witness ==
    /\ login.state = "Failed" /\ login.body = {FormMarker}
    /\ Mentions(login.err, InteractiveHint) /\ login.currentUserCalls = 0

\* C15: a login response holding both markers is classified
\* InvalidCredentials, never InteractiveAuthRequired; InteractiveAuthRequired
\* is the outcome only of a response holding the login-form marker and not
\* the invalid-credentials marker.
C15_MarkerOrder ==
    /\ (login.state = "Failed" /\ login.body = {InvalidMarker, FormMarker}) =>
           login.class = "InvalidCredentials"
    /\ login.class = "InteractiveAuthRequired" =>
           /\ FormMarker \in login.body
           /\ InvalidMarker \notin login.body

C15_Witness ==
    /\ login.state = "Failed" /\ login.body = {InvalidMarker, FormMarker}
    /\ login.class = "InvalidCredentials"

\* the cookies of the jar that the extractor named by t.fn chooses among
Candidates(t) ==
    IF t.fn = "ExtractAccessToken" THEN matching(jar, AccessTokenName, AccessMount)
    ELSE IF t.fn = "ExtractXSRFToken" THEN matching(jar, XSRFTokenName, XSRFMount)
    ELSE {}

\* the candidates with the longest Path
Longest(C) == {c \in C : \A d \in C : Len(d.path) <= Len(c.path)}

\* C16, as claimed: each extractor returns the value of the cookie with the
\* longest Path among those of its name whose Path is a prefix of its mount
\* path, and an error exactly when there is no such cookie.
C16_PathScoped ==
    token.fn # "none" =>
        /\ token.err # NoError <=> Candidates(token) = {}
        /\ Candidates(token) # {} =>
               \E c \in Longest(Candidates(token)) : token.out = c.value

\* C16, amended: the same, where ExtractAccessToken returns the value as it
\* is in the cookie and ExtractXSRFToken returns it URL-decoded and without
\* one layer of surrounding quotes.
C16_PathScopedDecoded ==
    token.fn # "none" =>
        /\ token.err # NoError <=> Candidates(token) = {}
        /\ Candidates(token) # {} =>
               \E c \in Longest(Candidates(token)) :
                   token.out = IF token.fn = "ExtractXSRFToken"
                               THEN Unquote(URLDecode(c.value)) ELSE c.value

\* two XSRF cookies of different values under the mount path, the one with
\* the longer Path quoted and escaped: its decoded value is returned
C16_Witness ==
    /\ token.fn = "ExtractXSRFToken" /\ token.err = NoError
    /\ Cardinality(Candidates(token)) = 2
    /\ \A c \in Candidates(token) : c.value # token.out
    /\ token.out = <<"t", "+", "n", "/", "1">>

====
